---- MODULE Spec2Model ----
(***************************************************************************)
(* Model of the FastAPI video service (src/fastapi_video_service/main.py): *)
(* the in-memory catalog video_metadata, the files under UPLOAD_DIR, and   *)
(* the handlers upload_video, stream_video, get_video_info, list_videos,   *)
(* delete_video and health_check, cut at the points where a coroutine      *)
(* awaits (aiofiles I/O, the transport's send).                            *)
(*                                                                         *)
(* Files follow POSIX semantics: a path is a directory entry (linked) to   *)
(* an inode (fileData); unlink removes the entry, an open handle keeps     *)
(* reading the inode.  Storage paths are never reused (uuid4 names), so    *)
(* the inode of a path is indexed by the path itself.                      *)
(*                                                                         *)
(* Sizes are scaled: the 1 MiB chunk is ChunkSize bytes and the 5 GiB      *)
(* limit is MAX_FILE_SIZE bytes, so that multi-chunk transfers and the     *)
(* limit are reached with files of a few bytes.                            *)
(*                                                                         *)
(* Spec      uploads, deletes and stream requests, interleaved at awaits.  *)
(* SpecRange one stream request, with any Range header of a few tokens,    *)
(*           for a file that stays stored.                                 *)
(* SpecPair  several stream requests, with and without "Range: bytes=0-",  *)
(*           for a file that stays stored.                                 *)
(* SpecApi   every handler: uploads, one stream request, and the one-step  *)
(*           handlers with their responses.                                *)
(* SpecNames uploads under file names of many shapes.                      *)
(* SpecRound uploads and several streams of whole files, nothing deleted.  *)
(* SpecLost  stream requests while a file is removed from storage from     *)
(*           outside the service.                                          *)
(* SpecShort one stream request while a file is truncated from outside.    *)
(*                                                                         *)
(* Two views of the Django site are modelled beside it: the player's       *)
(* StreamVideoView.get (src/apps/player/views.py) and the accounts'        *)
(* verify_email (src/apps/accounts/views.py), cut at its database          *)
(* statements.                                                             *)
(* SpecPlayer one request for a movie's stream, with any Range header.     *)
(* SpecVerify verify_email requests, interleaved, while the token expires. *)
(***************************************************************************)
EXTENDS Integers, Sequences, FiniteSets, TLC

\* ------------------------------------------------------------------ bounds
MaxUploads   == 2      \* upload requests (one fresh video id each)
MaxStreams   == 2      \* GET /stream requests
MaxRacing    == 1      \* of these, the requests that run beside uploads and deletes
MaxPayload   == 4      \* longest uploaded body, in bytes
MaxHeaderLen == 4      \* longest Range header, in tokens, of SpecRange
MaxMovie     == 3      \* longest video file of a movie, in bytes
MaxVerify    == 3      \* verify_email requests

\* ------------------------------------------------------- program constants
ChunkSize     == 2     \* 1024 * 1024, scaled
MAX_FILE_SIZE == 3     \* 5 * 1024 * 1024 * 1024, scaled

API_KEY == "your-secret-api-key-change-this"

UploadIds == 1..MaxUploads
StreamIds == 1..MaxStreams
RacingIds == 1..MaxRacing
VideoIds  == UploadIds          \* video_id of upload u is u (uuid4: fresh, unique)

Min(a, b) == IF a < b THEN a ELSE b

\* --------------------------------------------------------------- variables
VARIABLES
    video_metadata,   \* the catalog: an insertion-ordered dict, as a sequence of records
    linked,           \* linked[p]: a directory entry exists for storage path p
    fileData,         \* fileData[p]: the bytes of the inode of path p
    uploads,          \* uploads[u]: the state of upload request u
    streams,          \* streams[r]: the state of stream request r
    reply,            \* the last response of a handler that answers in one step
    deleted,          \* deleted[v]: the DELETE requests for v answered 200 so far
    video_file,       \* Django: movie.video_file, whether it is set and its bytes
    HTTP_RANGE,       \* Django: the Range header of the last StreamVideoView request
    response,         \* Django: the response of the last StreamVideoView request
    verification_token,  \* Django: the EmailVerificationToken row (is_used), and
                         \* whether timezone.now() is past its expires_at
    email_verified,   \* Django: user.email_verified of the token's user
    verifications     \* Django: verifications[q]: the state of verify_email request q

serviceVars == <<video_metadata, linked, fileData, uploads, streams, reply, deleted>>
djangoVars ==
    <<video_file, HTTP_RANGE, response, verification_token, email_verified,
      verifications>>
vars == <<serviceVars, djangoVars>>

\* ----------------------------------------------------------------- catalog
Has(video_id) == \E i \in 1..Len(video_metadata) : video_metadata[i].video_id = video_id

Get(video_id) ==
    video_metadata[CHOOSE i \in 1..Len(video_metadata) : video_metadata[i].video_id = video_id]

\* del video_metadata[video_id]
Del(video_id) == SelectSeq(video_metadata, LAMBDA rec : rec.video_id # video_id)

\* ------------------------------------------------------------ Range header
\* A header value is a sequence of tokens: "bytes=" is the unit prefix as one
\* token, a digit is itself, "-" and "," are themselves, and "x" is any other
\* character.  A request without the header has present = FALSE.
Digits == {"0", "1", "2", "3", "4", "5", "6", "7", "8", "9"}

NoHeader  == [present |-> FALSE, value |-> <<>>]
Header(s) == [present |-> TRUE, value |-> s]

DigitVal(c) ==
    CASE c = "0" -> 0 [] c = "1" -> 1 [] c = "2" -> 2 [] c = "3" -> 3 [] c = "4" -> 4
      [] c = "5" -> 5 [] c = "6" -> 6 [] c = "7" -> 7 [] c = "8" -> 8 [] c = "9" -> 9

\* str.replace("bytes=", ""): every occurrence of the prefix is removed
Replace(s) == SelectSeq(s, LAMBDA c : c # "bytes=")

\* str.split("-")
RECURSIVE Split(_)
Split(s) ==
    IF \E i \in 1..Len(s) : s[i] = "-"
    THEN LET i == CHOOSE k \in 1..Len(s) :
                      s[k] = "-" /\ \A j \in 1..(k - 1) : s[j] # "-"
         IN  <<SubSeq(s, 1, i - 1)>> \o Split(SubSeq(s, i + 1, Len(s)))
    ELSE <<s>>

\* int(s) raises ValueError unless s is a non-empty run of digits
IsInt(s) == s # <<>> /\ \A i \in 1..Len(s) : s[i] \in Digits

RECURSIVE IntOf(_)
IntOf(s) ==
    IF s = <<>> THEN 0
    ELSE 10 * IntOf(SubSeq(s, 1, Len(s) - 1)) + DigitVal(s[Len(s)])


\* ------------------------------------------------------------------- files
\* file.read(n) on a handle at offset pos: at most n bytes, none at or past EOF
FileRead(bytes, pos, n) ==
    IF pos >= Len(bytes) THEN <<>> ELSE SubSeq(bytes, pos + 1, Min(pos + n, Len(bytes)))

\* the body a client uploads in request u: every byte names its upload and offset
Payload(u, n) == [i \in 1..n |-> 10 * u + i]

\* -------------------------------------------------- stream_video, the handler
\* range_match[0] is set and is not a number: int() raises ValueError
StartRaises(range_match) == range_match[1] # <<>> /\ ~IsInt(range_match[1])

\* range_match[1] is set and is not a number: int() raises ValueError
EndRaises(range_match) ==
    Len(range_match) > 1 /\ range_match[2] # <<>> /\ ~IsInt(range_match[2])

\* start = int(range_match[0]) if range_match[0] else 0
RangeStart(range_match) ==
    IF range_match[1] # <<>> THEN IntOf(range_match[1]) ELSE 0

\* mutant: an omitted end defaults to file_size, one past the last byte
RangeEndPastLast(range_match, file_size) ==
    IF Len(range_match) > 1 /\ range_match[2] # <<>>
    THEN IntOf(range_match[2]) ELSE file_size

\* mutant: a given end past the last byte is brought back to the last byte
RangeEndClamped(range_match, file_size) ==
    IF Len(range_match) > 1 /\ range_match[2] # <<>>
    THEN Min(IntOf(range_match[2]), file_size - 1) ELSE file_size - 1

\* end = int(range_match[1]) if len(range_match) > 1 and range_match[1] else file_size - 1
RangeEnd(range_match, file_size) ==
    IF Len(range_match) > 1 /\ range_match[2] # <<>>
    THEN IntOf(range_match[2]) ELSE file_size - 1

\* mutant: only the start is validated
RangeNotSatisfiableStartOnly(start, end, file_size) == start >= file_size

\* if start >= file_size or end >= file_size: 416
RangeNotSatisfiable(start, end, file_size) == start >= file_size \/ end >= file_size

\* a response that carries no stream: an HTTPException, or the 500 of
\* global_exception_handler for an exception the handler does not catch
ErrorResponse(code) ==
    [status |-> code, start |-> 0, end |-> 0, length |-> 0, total |-> 0, path |-> 0,
     content_range |-> "none", accept_ranges |-> "none"]

\* the branch "if range_header:" of stream_video
RangeResponse(range_header, file_path, file_size) ==
    LET range_match == Split(Replace(range_header.value)) IN
    IF StartRaises(range_match) \/ EndRaises(range_match) THEN ErrorResponse(500)
    ELSE LET start == RangeStart(range_match)
             end   == RangeEnd(range_match, file_size)
         IN  IF RangeNotSatisfiable(start, end, file_size) THEN ErrorResponse(416)
             ELSE [status |-> 206, start |-> start, end |-> end,
                   length |-> end - start + 1, total |-> file_size, path |-> file_path,
                   content_range |-> "bytes start-end/total", accept_ranges |-> "bytes"]

\* mutant: the existence of the file is not tested
StreamResponseNoExists(video_id, range_header) ==
    IF ~Has(video_id) THEN ErrorResponse(404)
    ELSE LET file_path == Get(video_id).file_path
             file_size == Len(fileData[file_path])
         IN  IF range_header.present /\ range_header.value # <<>>
             THEN RangeResponse(range_header, file_path, file_size)
             ELSE [status |-> 200, start |-> 0, end |-> file_size - 1,
                   length |-> file_size, total |-> file_size, path |-> file_path,
                   content_range |-> "none", accept_ranges |-> "bytes"]

\* stream_video up to the return of its StreamingResponse (no await in between):
\* status, the interval and total of Content-Range, Content-Length (length)
\* and the path the generator stream_file will open.  content_range is the
\* form of the Content-Range header ("none" when the response has no such
\* header: the interval of a 200 is the whole file), accept_ranges the value
\* of Accept-Ranges ("none" when absent)
StreamResponse(video_id, range_header) ==
    IF ~Has(video_id) THEN ErrorResponse(404)
    ELSE LET file_path == Get(video_id).file_path IN
         IF ~linked[file_path] THEN ErrorResponse(404)
         ELSE LET file_size == Len(fileData[file_path]) IN
              IF range_header.present /\ range_header.value # <<>>
              THEN RangeResponse(range_header, file_path, file_size)
              ELSE [status |-> 200, start |-> 0, end |-> file_size - 1,
                    length |-> file_size, total |-> file_size, path |-> file_path,
                    content_range |-> "none", accept_ranges |-> "bytes"]

IdleStream ==
    [pc |-> "idle", video_id |-> 0, header |-> NoHeader, status |-> 0,
     start |-> 0, end |-> 0, length |-> 0, total |-> 0, path |-> 0,
     content_range |-> "none", accept_ranges |-> "none",
     remaining |-> 0, open |-> FALSE, pos |-> 0, held |-> <<>>, body |-> <<>>,
     outcome |-> "none"]

\* request slots are taken in order
StreamSlotFree(r) ==
    /\ streams[r].pc = "idle"
    /\ IF r = 1 THEN TRUE ELSE streams[r - 1].pc # "idle"

\* GET /stream/{video_id}: the handler runs to its return or to its exception
StreamRequest(r, video_id, range_header) ==
    /\ StreamSlotFree(r)
    /\ LET resp == StreamResponse(video_id, range_header)
           ok   == resp.status \in {200, 206}
       IN  streams' = [streams EXCEPT ![r] =
               [IdleStream EXCEPT
                   !.pc = IF ok THEN "accepted" ELSE "ended",
                   !.video_id = video_id, !.header = range_header,
                   !.status = resp.status, !.start = resp.start, !.end = resp.end,
                   !.length = resp.length, !.total = resp.total, !.path = resp.path,
                   !.content_range = resp.content_range,
                   !.accept_ranges = resp.accept_ranges,
                   !.outcome = IF ok THEN "none" ELSE "refused"]]
    /\ UNCHANGED <<video_metadata, linked, fileData, uploads, reply, deleted, djangoVars>>

\* while remaining > 0 (partial); the full stream has no such test
LoopDone(status, remaining) == status = 206 /\ ~(remaining > 0)

\* mutant: the partial stream reads whole chunks, whatever remains
ReadSizeWholeChunk(status, remaining) == ChunkSize

\* mutant: every read asks for two chunks
ReadSizeTwoChunks(status, remaining) == 2 * ChunkSize

\* read_size = min(1024 * 1024, remaining) (partial); 1024 * 1024 (full)
ReadSize(status, remaining) ==
    IF status = 206 THEN Min(ChunkSize, remaining) ELSE ChunkSize

\* where stream_file positions its handle: seek(start) (partial); offset 0 (full)
SeekTo(status, start) == IF status = 206 THEN start ELSE 0

\* stream_file starts: aiofiles.open(file_path, 'rb'), which fails when the
\* path is no longer linked, then seek(start) and remaining = chunk_size
StreamOpen(r) ==
    LET s == streams[r] IN
    /\ s.pc = "accepted"
    /\ streams' = [streams EXCEPT ![r] =
          IF linked[s.path]
          THEN [s EXCEPT !.open = TRUE, !.pos = SeekTo(s.status, s.start),
                         !.remaining = IF s.status = 206 THEN s.length ELSE 0,
                         !.pc = IF LoopDone(s.status, s.length) THEN "closing" ELSE "reading",
                         !.outcome = IF LoopDone(s.status, s.length) THEN "complete" ELSE "none"]
          ELSE [s EXCEPT !.pc = "ended", !.outcome = "open_failed"]]
    /\ UNCHANGED <<video_metadata, linked, fileData, uploads, reply, deleted, djangoVars>>

\* data = await video_file.read(read_size); an empty read ends the loop, any
\* other is counted and yielded to the transport
StreamRead(r) ==
    LET s    == streams[r]
        data == FileRead(fileData[s.path], s.pos, ReadSize(s.status, s.remaining))
    IN
    /\ s.pc = "reading"
    /\ streams' = [streams EXCEPT ![r] =
          IF data = <<>>
          THEN [s EXCEPT !.pc = "closing", !.outcome = "complete"]
          ELSE [s EXCEPT !.pc = "yielded", !.held = data,
                         !.pos = s.pos + Len(data),
                         !.remaining = IF s.status = 206 THEN s.remaining - Len(data) ELSE 0]]
    /\ UNCHANGED <<video_metadata, linked, fileData, uploads, reply, deleted, djangoVars>>

\* the transport accepts the yielded chunk; the generator resumes at its loop test
StreamSend(r) ==
    LET s == streams[r] IN
    /\ s.pc = "yielded"
    /\ streams' = [streams EXCEPT ![r] =
          [s EXCEPT !.body = s.body \o s.held, !.held = <<>>,
                    !.pc = IF LoopDone(s.status, s.remaining) THEN "closing" ELSE "reading",
                    !.outcome = IF LoopDone(s.status, s.remaining) THEN "complete" ELSE "none"]]
    /\ UNCHANGED <<video_metadata, linked, fileData, uploads, reply, deleted, djangoVars>>

\* video_file.read raises (an I/O error): the exception leaves the async with
StreamReadError(r) ==
    /\ streams[r].pc = "reading"
    /\ streams' = [streams EXCEPT ![r].pc = "closing", ![r].outcome = "read_error"]
    /\ UNCHANGED <<video_metadata, linked, fileData, uploads, reply, deleted, djangoVars>>

\* mutant: a disconnected stream is abandoned where it stands
AfterDisconnectAbandoned(pc) == "ended"

\* where a stream goes when its client disconnects: before stream_file has
\* started there is nothing to close; inside the async with (at the read or
\* at the yield) the generator is unwound through the exit of the async with
\* (the cancellation raised at the read, or the event loop's aclose() of the
\* generator suspended at the yield)
AfterDisconnect(pc) == IF pc = "accepted" THEN "ended" ELSE "closing"

\* the client disconnects: the response is cancelled, a held chunk is dropped
StreamDisconnect(r) ==
    LET s == streams[r] IN
    /\ s.pc \in {"accepted", "reading", "yielded"}
    /\ streams' = [streams EXCEPT ![r] =
          [s EXCEPT !.pc = AfterDisconnect(s.pc), !.held = <<>>,
                    !.outcome = "disconnected"]]
    /\ UNCHANGED <<video_metadata, linked, fileData, uploads, reply, deleted, djangoVars>>

\* the exit of "async with aiofiles.open(...)": the handle is closed
StreamClose(r) ==
    /\ streams[r].pc = "closing"
    /\ streams' = [streams EXCEPT ![r].pc = "ended", ![r].open = FALSE]
    /\ UNCHANGED <<video_metadata, linked, fileData, uploads, reply, deleted, djangoVars>>


\* ------------------------------------------------------------ upload_video
\* A filename is a sequence of tokens: "." or a run of characters without a dot.
\* str.lower() of such a run
Lower(t) == CASE t = "MP4" -> "mp4" [] t = "TXT" -> "txt" [] OTHER -> t

\* Path(filename).suffix: from the last dot, unless the name starts or ends with it
Suffix(filename) ==
    LET dots == {i \in 1..Len(filename) : filename[i] = "."} IN
    IF dots = {} THEN <<>>
    ELSE LET i == CHOOSE k \in dots : \A j \in dots : j <= k IN
         IF 1 < i /\ i < Len(filename) THEN SubSeq(filename, i, Len(filename)) ELSE <<>>

\* mutant: the extension is read after the first dot of the name
get_file_extension_first(filename) ==
    LET dots == {i \in 1..Len(filename) : filename[i] = "."} IN
    IF dots = {} THEN <<>>
    ELSE LET i == CHOOSE k \in dots : \A j \in dots : k <= j IN
         IF 1 < i /\ i < Len(filename) THEN <<".", Lower(filename[i + 1])>> ELSE <<>>

\* Path(filename).suffix.lower()
get_file_extension(filename) ==
    [i \in 1..Len(Suffix(filename)) |-> Lower(Suffix(filename)[i])]

ALLOWED_EXTENSIONS ==
    {<<".", "mp4">>, <<".", "avi">>, <<".", "mov">>, <<".", "mkv">>,
     <<".", "webm">>, <<".", "flv">>, <<".", "wmv">>}

validate_video_file(filename) == get_file_extension(filename) \in ALLOWED_EXTENSIONS

\* mutant: any key that is not empty is accepted
verify_api_key_present(x_api_key) == x_api_key # ""

\* verify_api_key raises 401 unless the X-API-Key header equals API_KEY
verify_api_key(x_api_key) == x_api_key = API_KEY

IdleUpload ==
    [pc |-> "idle", filename |-> <<>>, data |-> <<>>, file_size |-> 0,
     raised |-> "none", status |-> 0]

UploadSlotFree(u) ==
    /\ uploads[u].pc = "idle"
    /\ IF u = 1 THEN TRUE ELSE uploads[u - 1].pc # "idle"

\* POST /upload up to the first await: the key, then the extension
UploadRequest(u, x_api_key, filename, data) ==
    /\ UploadSlotFree(u)
    /\ uploads' = [uploads EXCEPT ![u] =
          IF ~verify_api_key(x_api_key)
          THEN [IdleUpload EXCEPT !.pc = "done", !.filename = filename, !.status = 401]
          ELSE IF ~validate_video_file(filename)
          THEN [IdleUpload EXCEPT !.pc = "done", !.filename = filename, !.status = 400]
          ELSE [IdleUpload EXCEPT !.pc = "opening", !.filename = filename, !.data = data]]
    /\ UNCHANGED <<video_metadata, linked, fileData, streams, reply, deleted, djangoVars>>

\* mutant: the record is registered, with size 0, when the file is created
UploadOpenRegisters(u) ==
    /\ uploads[u].pc = "opening"
    /\ uploads' = [uploads EXCEPT ![u].pc = "copying"]
    /\ linked' = [linked EXCEPT ![u] = TRUE]
    /\ fileData' = [fileData EXCEPT ![u] = <<>>]
    /\ video_metadata' = Append(video_metadata, [video_id |-> u,
           original_filename |-> uploads[u].filename, file_path |-> u, size |-> 0])
    /\ UNCHANGED <<streams, reply, deleted, djangoVars>>

\* aiofiles.open(file_path, 'wb'): the file is created, empty
UploadOpen(u) ==
    /\ uploads[u].pc = "opening"
    /\ uploads' = [uploads EXCEPT ![u].pc = "copying"]
    /\ linked' = [linked EXCEPT ![u] = TRUE]
    /\ fileData' = [fileData EXCEPT ![u] = <<>>]
    /\ UNCHANGED <<video_metadata, streams, reply, deleted, djangoVars>>

\* mutant: the limit is tested on the size before the chunk was counted
TooLargeBeforeChunk(file_size) == file_size - ChunkSize > MAX_FILE_SIZE

\* mutant: a file of exactly the maximum size is refused
TooLargeInclusive(file_size) == file_size >= MAX_FILE_SIZE

\* if file_size > MAX_FILE_SIZE
TooLarge(file_size) == file_size > MAX_FILE_SIZE

\* mutant: the chunk is written before the size is tested
UploadChunkWriteFirst(u) ==
    LET up        == uploads[u]
        chunk     == FileRead(up.data, up.file_size, ChunkSize)
        file_size == up.file_size + Len(chunk)
    IN
    /\ up.pc = "copying"
    /\ IF chunk = <<>>
       THEN /\ uploads' = [uploads EXCEPT ![u].pc = "closing"]
            /\ UNCHANGED fileData
       ELSE /\ fileData' = [fileData EXCEPT ![u] = fileData[u] \o chunk]
            /\ uploads' = [uploads EXCEPT
                              ![u].pc = IF TooLarge(file_size) THEN "rejecting" ELSE @,
                              ![u].file_size = file_size]
    /\ UNCHANGED <<video_metadata, linked, streams, reply, deleted, djangoVars>>

\* one turn of "while chunk := await file.read(1024 * 1024)": an empty chunk
\* ends the copy; a chunk over the limit is not written; any other is written.
\* The request body is read at offset file_size, the count of bytes read so far
UploadChunk(u) ==
    LET up        == uploads[u]
        chunk     == FileRead(up.data, up.file_size, ChunkSize)
        file_size == up.file_size + Len(chunk)
    IN
    /\ up.pc = "copying"
    /\ IF chunk = <<>>
       THEN /\ uploads' = [uploads EXCEPT ![u].pc = "closing"]
            /\ UNCHANGED fileData
       ELSE IF TooLarge(file_size)
       THEN /\ uploads' = [uploads EXCEPT ![u].pc = "rejecting",
                                          ![u].file_size = file_size]
            /\ UNCHANGED fileData
       ELSE /\ uploads' = [uploads EXCEPT ![u].file_size = file_size]
            /\ fileData' = [fileData EXCEPT ![u] = fileData[u] \o chunk]
    /\ UNCHANGED <<video_metadata, linked, streams, reply, deleted, djangoVars>>

\* after "await f.close()": file_path.unlink(), raise HTTPException(413)
UploadReject(u) ==
    /\ uploads[u].pc = "rejecting"
    /\ linked' = [linked EXCEPT ![u] = FALSE]
    /\ uploads' = [uploads EXCEPT ![u].pc = "failing", ![u].raised = "HTTPException413"]
    /\ UNCHANGED <<video_metadata, fileData, streams, reply, deleted, djangoVars>>

\* aiofiles.open or f.write raises (an I/O error)
UploadIOError(u) ==
    /\ uploads[u].pc \in {"opening", "copying"}
    /\ uploads' = [uploads EXCEPT ![u].pc = "failing", ![u].raised = "OSError"]
    /\ UNCHANGED <<video_metadata, linked, fileData, streams, reply, deleted, djangoVars>>

\* mutant: the except clause catches HTTPException only
CaughtByExceptHttpOnly(raised) == raised = "HTTPException413"

\* "except Exception" catches what derives from Exception: an OSError, and
\* an HTTPException as well
CaughtByExcept(raised) == raised \in {"OSError", "HTTPException413"}

\* the status the client gets for an exception raised inside the try
UploadErrorStatus(raised) ==
    IF CaughtByExcept(raised) THEN 500
    ELSE IF raised = "HTTPException413" THEN 413 ELSE 500

\* the exception has left the async with: the except clause removes the file
\* if it exists and raises HTTPException(500)
UploadExcept(u) ==
    /\ uploads[u].pc = "failing"
    /\ linked' = [linked EXCEPT ![u] =
          IF CaughtByExcept(uploads[u].raised) THEN FALSE ELSE linked[u]]
    /\ uploads' = [uploads EXCEPT ![u].pc = "done",
                                  ![u].status = UploadErrorStatus(uploads[u].raised)]
    /\ UNCHANGED <<video_metadata, fileData, streams, reply, deleted, djangoVars>>

\* video_metadata[video_id] = {...}
Record(video_id, filename, file_size) ==
    [video_id |-> video_id, original_filename |-> filename,
     file_path |-> video_id, size |-> file_size]

\* the async with has closed the file: the record is registered, 200
UploadFinish(u) ==
    /\ uploads[u].pc = "closing"
    /\ video_metadata' =
          Append(video_metadata, Record(u, uploads[u].filename, uploads[u].file_size))
    /\ uploads' = [uploads EXCEPT ![u].pc = "done", ![u].status = 200]
    /\ UNCHANGED <<linked, fileData, streams, reply, deleted, djangoVars>>

\* ------------------------------------------------- the one-step handlers
\* delete_video, get_video_info, list_videos and health_check have no await:
\* each is one step, and what it answers is left in reply.  A response
\* without a field has the field's value of NoReply
NoReply ==
    [op |-> "none", status |-> 0, video_id |-> 0, total |-> 0, limit |-> 0,
     offset |-> 0, videos |-> <<>>]

Answer(op, status) == [NoReply EXCEPT !.op = op, !.status = status]

\* mutant: the record is removed and the file is left in storage
delete_video_record_only(video_id, x_api_key) ==
    IF ~verify_api_key(x_api_key)
    THEN /\ reply' = Answer("delete_video", 401)
         /\ UNCHANGED <<video_metadata, linked, fileData, uploads, streams, deleted, djangoVars>>
    ELSE IF ~Has(video_id)
    THEN /\ reply' = Answer("delete_video", 404)
         /\ UNCHANGED <<video_metadata, linked, fileData, uploads, streams, deleted, djangoVars>>
    ELSE /\ video_metadata' = Del(video_id)
         /\ reply' = [Answer("delete_video", 200) EXCEPT !.video_id = video_id]
         /\ deleted' = [deleted EXCEPT ![video_id] = @ + 1]
         /\ UNCHANGED <<linked, fileData, uploads, streams, djangoVars>>

\* mutant: deleting an identifier the catalog does not have is answered 200
delete_video_idempotent(video_id, x_api_key) ==
    IF ~verify_api_key(x_api_key)
    THEN /\ reply' = Answer("delete_video", 401)
         /\ UNCHANGED <<video_metadata, linked, fileData, uploads, streams, deleted, djangoVars>>
    ELSE IF ~Has(video_id)
    THEN /\ reply' = [Answer("delete_video", 200) EXCEPT !.video_id = video_id]
         /\ UNCHANGED <<video_metadata, linked, fileData, uploads, streams, deleted, djangoVars>>
    ELSE /\ linked' = [linked EXCEPT ![Get(video_id).file_path] = FALSE]
         /\ video_metadata' = Del(video_id)
         /\ reply' = [Answer("delete_video", 200) EXCEPT !.video_id = video_id]
         /\ deleted' = [deleted EXCEPT ![video_id] = @ + 1]
         /\ UNCHANGED <<fileData, uploads, streams, djangoVars>>

\* mutant: the file is unlinked and the record is left in the catalog
\* (no del video_metadata[video_id])
delete_video_keeps_record(video_id, x_api_key) ==
    IF ~verify_api_key(x_api_key)
    THEN /\ reply' = Answer("delete_video", 401)
         /\ UNCHANGED <<video_metadata, linked, fileData, uploads, streams, deleted, djangoVars>>
    ELSE IF ~Has(video_id)
    THEN /\ reply' = Answer("delete_video", 404)
         /\ UNCHANGED <<video_metadata, linked, fileData, uploads, streams, deleted, djangoVars>>
    ELSE /\ linked' = [linked EXCEPT ![Get(video_id).file_path] = FALSE]
         /\ reply' = [Answer("delete_video", 200) EXCEPT !.video_id = video_id]
         /\ deleted' = [deleted EXCEPT ![video_id] = @ + 1]
         /\ UNCHANGED <<video_metadata, fileData, uploads, streams, djangoVars>>

\* DELETE /video/{video_id}: 401 and 404 change nothing; otherwise the file
\* is unlinked if it exists, the record is removed and the answer is 200
\* with the video_id
delete_video(video_id, x_api_key) ==
    IF ~verify_api_key(x_api_key)
    THEN /\ reply' = Answer("delete_video", 401)
         /\ UNCHANGED <<video_metadata, linked, fileData, uploads, streams, deleted, djangoVars>>
    ELSE IF ~Has(video_id)
    THEN /\ reply' = Answer("delete_video", 404)
         /\ UNCHANGED <<video_metadata, linked, fileData, uploads, streams, deleted, djangoVars>>
    ELSE /\ linked' = [linked EXCEPT ![Get(video_id).file_path] = FALSE]
         /\ video_metadata' = Del(video_id)
         /\ reply' = [Answer("delete_video", 200) EXCEPT !.video_id = video_id]
         /\ deleted' = [deleted EXCEPT ![video_id] = @ + 1]
         /\ UNCHANGED <<fileData, uploads, streams, djangoVars>>

\* mutant: the record is taken out of the catalog as it is returned
\* (video_metadata.pop(video_id))
get_video_info_pop(video_id, x_api_key) ==
    /\ reply' =
          IF ~verify_api_key(x_api_key) THEN Answer("get_video_info", 401)
          ELSE IF ~Has(video_id) THEN Answer("get_video_info", 404)
          ELSE [Answer("get_video_info", 200) EXCEPT
                   !.video_id = video_id, !.videos = <<Get(video_id)>>]
    /\ video_metadata' =
          IF verify_api_key(x_api_key) /\ Has(video_id) THEN Del(video_id)
          ELSE video_metadata
    /\ UNCHANGED <<linked, fileData, uploads, streams, deleted, djangoVars>>

\* GET /video/{video_id}: 401, 404, or 200 with the record
get_video_info(video_id, x_api_key) ==
    /\ reply' =
          IF ~verify_api_key(x_api_key) THEN Answer("get_video_info", 401)
          ELSE IF ~Has(video_id) THEN Answer("get_video_info", 404)
          ELSE [Answer("get_video_info", 200) EXCEPT
                   !.video_id = video_id, !.videos = <<Get(video_id)>>]
    /\ UNCHANGED <<video_metadata, linked, fileData, uploads, streams, deleted, djangoVars>>

\* the bound i of a Python slice of a list of n items: counted from the end
\* when negative, then brought into 0..n
SliceBound(i, n) ==
    LET k == IF i < 0 THEN i + n ELSE i IN
    IF k < 0 THEN 0 ELSE IF k > n THEN n ELSE k

\* mutant: the end of the slice is included (videos[lo:hi + 1])
PySliceInclusive(videos, lo, hi) ==
    SubSeq(videos, SliceBound(lo, Len(videos)) + 1, SliceBound(hi + 1, Len(videos)))

\* videos[lo:hi]
PySlice(videos, lo, hi) ==
    SubSeq(videos, SliceBound(lo, Len(videos)) + 1, SliceBound(hi, Len(videos)))

\* GET /videos: 401, or 200 with the count of all records and the page
\* videos[offset:offset + limit] in catalog order
list_videos(x_api_key, limit, offset) ==
    /\ reply' =
          IF ~verify_api_key(x_api_key) THEN Answer("list_videos", 401)
          ELSE [Answer("list_videos", 200) EXCEPT
                   !.total = Len(video_metadata), !.limit = limit, !.offset = offset,
                   !.videos = PySlice(video_metadata, offset, offset + limit)]
    /\ UNCHANGED <<video_metadata, linked, fileData, uploads, streams, deleted, djangoVars>>

\* GET /health: no key; 200 with videos_count = len(video_metadata)
health_check ==
    /\ reply' = [Answer("health_check", 200) EXCEPT !.total = Len(video_metadata)]
    /\ UNCHANGED <<video_metadata, linked, fileData, uploads, streams, deleted, djangoVars>>

\* ============================ the Django site: player.StreamVideoView
\* re.search(r'bytes=(\d+)-(\d*)', range_header) on a header value: the last
\* index of the longest run of digits that starts at index i (i - 1 if s[i]
\* is not a digit)
RunEnd(s, i) ==
    CHOOSE j \in (i - 1)..Len(s) :
        /\ \A k \in i..j : s[k] \in Digits
        /\ IF j = Len(s) THEN TRUE ELSE s[j + 1] \notin Digits

\* the pattern matches at index i: "bytes=", one digit or more, "-"
\* (\d+ is greedy, and giving digits back cannot put it before a "-")
MatchAt(s, i) ==
    /\ s[i] = "bytes="
    /\ RunEnd(s, i + 1) >= i + 1
    /\ RunEnd(s, i + 1) < Len(s)
    /\ s[RunEnd(s, i + 1) + 1] = "-"

\* re.search: the leftmost match; group(1) is the run of digits before the
\* "-", group(2) the run of digits after it, which may be empty
RangeSearch(s) ==
    IF \E i \in 1..Len(s) : MatchAt(s, i)
    THEN LET i == CHOOSE k \in 1..Len(s) :
                      MatchAt(s, k) /\ \A l \in 1..(k - 1) : ~MatchAt(s, l)
             j == RunEnd(s, i + 1)
         IN  [found |-> TRUE, group1 |-> SubSeq(s, i + 1, j),
              group2 |-> SubSeq(s, j + 2, RunEnd(s, j + 2))]
    ELSE [found |-> FALSE, group1 |-> <<>>, group2 |-> <<>>]

\* video_file.seek(pos); video_file.read(n): a negative n reads to the end of
\* the file, and nothing is read at or past the end
FieldFileRead(bytes, pos, n) ==
    IF n < 0 THEN FileRead(bytes, pos, Len(bytes)) ELSE FileRead(bytes, pos, n)

\* the bytes of a movie file of n bytes
MovieBytes(n) == [i \in 1..n |-> 90 + i]

NoVideoFile == [set |-> FALSE, data |-> <<>>]
Slugs == {"movie", "no-such-movie"}

NoResponse ==
    [status |-> 0, start |-> 0, end |-> 0, total |-> 0, content_length |-> 0,
     content_range |-> "none", accept_ranges |-> "none", body |-> <<>>]

\* the branch "if range_match": start, end, length as the header gives them,
\* the bytes read at start, and the 206 with its headers
PartialContent(range_match) ==
    LET file_size == Len(video_file.data)
        start     == IntOf(range_match.group1)
        end       == IF range_match.group2 # <<>>
                     THEN IntOf(range_match.group2) ELSE file_size - 1
        length    == end - start + 1
    IN  [status |-> 206, start |-> start, end |-> end, total |-> file_size,
         content_length |-> length, content_range |-> "bytes start-end/total",
         accept_ranges |-> "bytes",
         body |-> FieldFileRead(video_file.data, start, length)]

\* the branch "else": FileResponse of the whole file
WholeFile ==
    [NoResponse EXCEPT !.status = 200, !.total = Len(video_file.data),
                       !.content_length = Len(video_file.data),
                       !.accept_ranges = "bytes", !.body = video_file.data]

\* StreamVideoView.get: 404 for an unknown slug or a movie without a file;
\* request.META.get('HTTP_RANGE', '') is empty for a request without the
\* header, and an empty value is not searched
StreamVideoView_get(slug, header) ==
    /\ HTTP_RANGE' = header
    /\ response' =
          IF slug # "movie" \/ ~video_file.set
          THEN [NoResponse EXCEPT !.status = 404]
          ELSE IF header.present /\ header.value # <<>> /\ RangeSearch(header.value).found
          THEN PartialContent(RangeSearch(header.value))
          ELSE WholeFile
    /\ UNCHANGED <<serviceVars, video_file, verification_token, email_verified,
                   verifications>>

\* ================================== the Django site: accounts.verify_email
\* The view runs in a worker thread or process of its own and holds no
\* transaction and no row lock: requests interleave at its database
\* statements.
IdleVerification == [pc |-> "idle", token |-> "none", outcome |-> "none"]
VerifyIds == 1..MaxVerify
Tokens == {"token", "no-such-token"}

VerifySlotFree(q) ==
    /\ verifications[q].pc = "idle"
    /\ IF q = 1 THEN TRUE ELSE verifications[q - 1].pc # "idle"

\* EmailVerificationToken.objects.get(token=token, is_used=False): the row,
\* or DoesNotExist and the answer "Invalid verification link."
VerifyGet(q, token) ==
    /\ VerifySlotFree(q)
    /\ verifications' = [verifications EXCEPT ![q] =
          IF token = "token" /\ ~verification_token.is_used
          THEN [pc |-> "fetched", token |-> token, outcome |-> "none"]
          ELSE [pc |-> "done", token |-> token, outcome |-> "invalid"]]
    /\ UNCHANGED <<serviceVars, video_file, HTTP_RANGE, response,
                   verification_token, email_verified>>

\* verification_token.is_expired(): timezone.now() > expires_at, and the
\* answer "This verification link has expired."
VerifyIsExpired(q) ==
    /\ verifications[q].pc = "fetched"
    /\ verifications' = [verifications EXCEPT ![q] =
          IF verification_token.expired
          THEN [@ EXCEPT !.pc = "done", !.outcome = "expired"]
          ELSE [@ EXCEPT !.pc = "saving"]]
    /\ UNCHANGED <<serviceVars, video_file, HTTP_RANGE, response,
                   verification_token, email_verified>>

\* user.email_verified = True; user.save(update_fields=['email_verified'])
VerifySaveUser(q) ==
    /\ verifications[q].pc = "saving"
    /\ email_verified' = TRUE
    /\ verifications' = [verifications EXCEPT ![q].pc = "marking"]
    /\ UNCHANGED <<serviceVars, video_file, HTTP_RANGE, response,
                   verification_token>>

\* verification_token.mark_as_used(), and the answer "Your email has been
\* verified successfully!"
VerifyMarkAsUsed(q) ==
    /\ verifications[q].pc = "marking"
    /\ verification_token' = [verification_token EXCEPT !.is_used = TRUE]
    /\ verifications' = [verifications EXCEPT ![q].pc = "done", ![q].outcome = "verified"]
    /\ UNCHANGED <<serviceVars, video_file, HTTP_RANGE, response, email_verified>>

\* time passes expires_at
TokenExpires ==
    /\ ~verification_token.expired
    /\ verification_token' = [verification_token EXCEPT !.expired = TRUE]
    /\ UNCHANGED <<serviceVars, video_file, HTTP_RANGE, response, email_verified,
                   verifications>>

\* ------------------------------------------------------------ specification
Keys == {API_KEY, "wrong-key"}
Filenames == {<<"v", ".", "mp4">>, <<"v", ".", "txt">>}

\* the Range headers of the concurrent specification
bytes_0_    == Header(<<"bytes=", "0", "-">>)
bytes_1_2   == Header(<<"bytes=", "1", "-", "2">>)
ConcHeaders == {NoHeader, bytes_0_, bytes_1_2}

\* the Django site before any request: a movie without a file, and a token
\* that was issued for a user whose email is not verified
InitPlayer ==
    /\ video_file = NoVideoFile
    /\ HTTP_RANGE = NoHeader
    /\ response = NoResponse

InitAccounts ==
    /\ verification_token = [is_used |-> FALSE, expired |-> FALSE]
    /\ email_verified = FALSE
    /\ verifications = [q \in VerifyIds |-> IdleVerification]

InitService ==
    /\ video_metadata = <<>>
    /\ linked = [p \in VideoIds |-> FALSE]
    /\ fileData = [p \in VideoIds |-> <<>>]
    /\ uploads = [u \in UploadIds |-> IdleUpload]
    /\ streams = [r \in StreamIds |-> IdleStream]
    /\ reply = NoReply
    /\ deleted = [v \in VideoIds |-> 0]

Init == InitService /\ InitPlayer /\ InitAccounts

Next ==
    \/ \E u \in UploadIds : UploadSlotFree(u) /\
          \E k \in Keys, fn \in Filenames, n \in 0..MaxPayload :
              UploadRequest(u, k, fn, Payload(u, n))
    \/ \E u \in UploadIds : UploadOpen(u)
    \/ \E u \in UploadIds : UploadChunk(u)
    \/ \E u \in UploadIds : UploadReject(u)
    \/ \E u \in UploadIds : UploadIOError(u)
    \/ \E u \in UploadIds : UploadExcept(u)
    \/ \E u \in UploadIds : UploadFinish(u)
    \/ \E r \in RacingIds : StreamSlotFree(r) /\
          \E v \in VideoIds, h \in ConcHeaders : StreamRequest(r, v, h)
    \/ \E r \in RacingIds : StreamOpen(r)
    \/ \E r \in RacingIds : StreamRead(r)
    \/ \E r \in RacingIds : StreamSend(r)
    \/ \E r \in RacingIds : StreamReadError(r)
    \/ \E r \in RacingIds : StreamDisconnect(r)
    \/ \E r \in RacingIds : StreamClose(r)
    \/ \E v \in VideoIds, k \in Keys : delete_video(v, k)

Spec == Init /\ [][Next]_vars


\* ---------------------------------------- streaming a file that stays stored
\* every sequence over S of length at most n
SeqsUpTo(S, n) == UNION {[1..k -> S] : k \in 0..n}

\* the decimal numeral of n >= 0, and the header "bytes=<a>-<b>", where
\* Absent stands for a bound the client left out
DigitChar(d) ==
    CASE d = 0 -> "0" [] d = 1 -> "1" [] d = 2 -> "2" [] d = 3 -> "3" [] d = 4 -> "4"
      [] d = 5 -> "5" [] d = 6 -> "6" [] d = 7 -> "7" [] d = 8 -> "8" [] d = 9 -> "9"

RECURSIVE Decimal(_)
Decimal(n) == IF n < 10 THEN <<DigitChar(n)>> ELSE Decimal(n \div 10) \o <<DigitChar(n % 10)>>

Absent == 0 - 1
Numeral(n) == IF n = Absent THEN <<>> ELSE Decimal(n)
RangeHeader(a, b) == Header(<<"bytes=">> \o Numeral(a) \o <<"-">> \o Numeral(b))

\* the tokens of the enumerated headers
HeaderTokens == {"bytes=", "x", ",", "-", "0", "1", "2", "3", "4"}

\* headers longer than MaxHeaderLen: several ranges, and a range that starts
\* at the length of a file and ends ten bytes later
bytes_0_1_2_3 == Header(<<"bytes=", "0", "-", "1", ",", "2", "-", "3">>)
PastTheEnd == {RangeHeader(t, t + 10) : t \in 0..MAX_FILE_SIZE}

AllHeaders ==
    {NoHeader, bytes_0_1_2_3} \cup PastTheEnd
        \cup {Header(s) : s \in SeqsUpTo(HeaderTokens, MaxHeaderLen)}

\* the state after one upload of n bytes has succeeded and nothing else has run
InitStored ==
    \E n \in 0..MAX_FILE_SIZE :
        /\ video_metadata = <<Record(1, <<"v", ".", "mp4">>, n)>>
        /\ linked = [p \in VideoIds |-> p = 1]
        /\ fileData = [p \in VideoIds |-> IF p = 1 THEN Payload(1, n) ELSE <<>>]
        /\ uploads = [u \in UploadIds |->
              IF u = 1
              THEN [IdleUpload EXCEPT !.pc = "done", !.filename = <<"v", ".", "mp4">>,
                                      !.data = Payload(1, n), !.file_size = n,
                                      !.status = 200]
              ELSE IdleUpload]
        /\ streams = [r \in StreamIds |-> IdleStream]
        /\ reply = NoReply
        /\ deleted = [v \in VideoIds |-> 0]
        /\ InitPlayer /\ InitAccounts

\* one request, any Range header
NextRange ==
    \/ StreamSlotFree(1) /\ \E v \in VideoIds, h \in AllHeaders : StreamRequest(1, v, h)
    \/ StreamOpen(1)
    \/ StreamRead(1)
    \/ StreamSend(1)
    \/ StreamClose(1)

SpecRange == InitStored /\ [][NextRange]_vars

\* several requests, with and without "Range: bytes=0-"
NextPair ==
    \/ \E r \in StreamIds : StreamSlotFree(r) /\
          \E v \in VideoIds, h \in {NoHeader, bytes_0_} : StreamRequest(r, v, h)
    \/ \E r \in StreamIds : StreamOpen(r)
    \/ \E r \in StreamIds : StreamRead(r)
    \/ \E r \in StreamIds : StreamSend(r)
    \/ \E r \in StreamIds : StreamClose(r)

SpecPair == InitStored /\ [][NextPair]_vars


\* ------------------------------------------- every handler of the service
\* the values of limit and offset
PageNums == 0..2

\* the sizes of the uploaded bodies: one byte, and the longest body
ApiSizes == {1, MaxPayload}

\* uploads, one stream request, and the one-step handlers
NextApi ==
    \/ \E u \in UploadIds : UploadSlotFree(u) /\
          \E k \in Keys, fn \in Filenames, n \in ApiSizes :
              UploadRequest(u, k, fn, Payload(u, n))
    \/ \E u \in UploadIds : UploadOpen(u)
    \/ \E u \in UploadIds : UploadChunk(u)
    \/ \E u \in UploadIds : UploadReject(u)
    \/ \E u \in UploadIds : UploadIOError(u)
    \/ \E u \in UploadIds : UploadExcept(u)
    \/ \E u \in UploadIds : UploadFinish(u)
    \/ StreamSlotFree(1) /\ \E v \in VideoIds, h \in ConcHeaders : StreamRequest(1, v, h)
    \/ StreamOpen(1)
    \/ StreamRead(1)
    \/ StreamSend(1)
    \/ StreamClose(1)
    \/ \E v \in VideoIds, k \in Keys : delete_video(v, k)
    \/ \E v \in VideoIds, k \in Keys : get_video_info(v, k)
    \/ \E k \in Keys, limit \in PageNums, offset \in PageNums :
          list_videos(k, limit, offset)
    \/ health_check

SpecApi == Init /\ [][NextApi]_vars

\* ------------------------------------------------- uploads under any name
\* names in upper case, without an extension, with a leading or a trailing
\* dot, and with two extensions
Names ==
    Filenames \cup
        {<<"v", ".", "MP4">>, <<"v", ".", "TXT">>, <<"v">>, <<".", "mp4">>, <<"v", ".">>,
         <<"v", ".", "mp4", ".", "txt">>, <<"v", ".", "txt", ".", "mp4">>}

NextNames ==
    \/ \E u \in UploadIds : UploadSlotFree(u) /\
          \E k \in Keys, fn \in Names, n \in 0..MaxPayload :
              UploadRequest(u, k, fn, Payload(u, n))
    \/ \E u \in UploadIds : UploadOpen(u)
    \/ \E u \in UploadIds : UploadChunk(u)
    \/ \E u \in UploadIds : UploadReject(u)
    \/ \E u \in UploadIds : UploadIOError(u)
    \/ \E u \in UploadIds : UploadExcept(u)
    \/ \E u \in UploadIds : UploadFinish(u)

SpecNames == Init /\ [][NextNames]_vars

\* ------------------------------------ uploads, then streams of whole files
\* uploads and several stream requests without a Range header; nothing is
\* deleted and no client disconnects
NextRound ==
    \/ \E u \in UploadIds : UploadSlotFree(u) /\
          \E k \in Keys, fn \in Filenames, n \in 0..MaxPayload :
              UploadRequest(u, k, fn, Payload(u, n))
    \/ \E u \in UploadIds : UploadOpen(u)
    \/ \E u \in UploadIds : UploadChunk(u)
    \/ \E u \in UploadIds : UploadReject(u)
    \/ \E u \in UploadIds : UploadIOError(u)
    \/ \E u \in UploadIds : UploadExcept(u)
    \/ \E u \in UploadIds : UploadFinish(u)
    \/ \E r \in StreamIds : StreamSlotFree(r) /\
          \E v \in VideoIds : StreamRequest(r, v, NoHeader)
    \/ \E r \in StreamIds : StreamOpen(r)
    \/ \E r \in StreamIds : StreamRead(r)
    \/ \E r \in StreamIds : StreamSend(r)
    \/ \E r \in StreamIds : StreamClose(r)

SpecRound == Init /\ [][NextRound]_vars

\* ------------------------------------------ a file that leaves storage
\* a file of UPLOAD_DIR is removed by something other than the service (the
\* case that "if not file_path.exists()" of stream_video provides for)
ExternalRemove(p) ==
    /\ linked[p]
    /\ linked' = [linked EXCEPT ![p] = FALSE]
    /\ UNCHANGED <<video_metadata, fileData, uploads, streams, reply, deleted, djangoVars>>

\* stream requests for a recorded video whose file may be removed from
\* storage at any moment, and for an identifier the catalog does not have
NextLost ==
    \/ \E p \in VideoIds : ExternalRemove(p)
    \/ \E r \in StreamIds : StreamSlotFree(r) /\
          \E v \in VideoIds, h \in ConcHeaders : StreamRequest(r, v, h)
    \/ \E r \in StreamIds : StreamOpen(r)
    \/ \E r \in StreamIds : StreamRead(r)
    \/ \E r \in StreamIds : StreamSend(r)
    \/ \E r \in StreamIds : StreamClose(r)

SpecLost == InitStored /\ [][NextLost]_vars

\* ------------------------------------------------ a file that gets shorter
\* a file of UPLOAD_DIR is truncated by something other than the service: it
\* loses its last byte (the case that "if not data: break" of the partial
\* stream provides for)
ExternalTruncate(p) ==
    /\ linked[p]
    /\ fileData[p] # <<>>
    /\ fileData' = [fileData EXCEPT ![p] = SubSeq(fileData[p], 1, Len(fileData[p]) - 1)]
    /\ UNCHANGED <<video_metadata, linked, uploads, streams, reply, deleted, djangoVars>>

\* one stream request for a stored file that may get shorter at any moment
NextShort ==
    \/ \E p \in VideoIds : ExternalTruncate(p)
    \/ StreamSlotFree(1) /\ \E v \in VideoIds, h \in ConcHeaders : StreamRequest(1, v, h)
    \/ StreamOpen(1)
    \/ StreamRead(1)
    \/ StreamSend(1)
    \/ StreamClose(1)

SpecShort == InitStored /\ [][NextShort]_vars

\* ------------------------------------------- the player's stream view
\* a movie with a file of any length up to MaxMovie, or without a file
InitMovie ==
    /\ InitService /\ InitAccounts
    /\ HTTP_RANGE = NoHeader
    /\ response = NoResponse
    /\ \/ video_file = NoVideoFile
       \/ \E n \in 0..MaxMovie : video_file = [set |-> TRUE, data |-> MovieBytes(n)]

\* one request for the movie's stream, with any Range header
NextPlayer ==
    response = NoResponse /\ \E slug \in Slugs, h \in AllHeaders :
        StreamVideoView_get(slug, h)

SpecPlayer == InitMovie /\ [][NextPlayer]_vars

\* ------------------------------------------- verify_email requests
\* requests that carry the token, or a token that was never issued, while
\* time may pass the token's expiry
NextVerify ==
    \/ \E q \in VerifyIds : VerifySlotFree(q) /\ \E t \in Tokens : VerifyGet(q, t)
    \/ \E q \in VerifyIds : VerifyIsExpired(q)
    \/ \E q \in VerifyIds : VerifySaveUser(q)
    \/ \E q \in VerifyIds : VerifyMarkAsUsed(q)
    \/ TokenExpires

SpecVerify == Init /\ [][NextVerify]_vars

\* ================================================================== claims
\* the video is in the catalog and its file is in storage; its bytes
Stored(video_id) == Has(video_id) /\ linked[Get(video_id).file_path]
File(video_id) == fileData[Get(video_id).file_path]

\* bytes [a, b] of a file, offsets from 0, both ends included
Slice(bytes, a, b) == SubSeq(bytes, a + 1, b + 1)
IsPrefix(p, q) == Len(p) <= Len(q) /\ SubSeq(q, 1, Len(p)) = p

\* the bounds a claim's Range header may name
RangeNums == 0..(MAX_FILE_SIZE + 10)

\* C1: for a stored file of length total and a header bytes=<a>-<b> with
\* 0 <= a <= b < total, the request is answered 206; the chunks sent so far,
\* followed by the chunk in hand, are a prefix of bytes [a, b] of the file (in
\* order, no gap, no overlap); and when the stream has ended the body is
\* exactly these b-a+1 bytes.
C1_RangeBody ==
    \A r \in StreamIds :
        LET s == streams[r] IN
        (s.pc # "idle" /\ Stored(s.video_id)) =>
            \A a, b \in 0..(Len(File(s.video_id)) - 1) :
                (a <= b /\ s.header = RangeHeader(a, b)) =>
                    /\ s.status = 206
                    /\ IsPrefix(s.body \o s.held, Slice(File(s.video_id), a, b))
                    /\ s.pc = "ended" =>
                          /\ Len(s.body) = b - a + 1
                          /\ s.body = Slice(File(s.video_id), a, b)

\* a range of three bytes, sent in two chunks, has been delivered
C1_Witness ==
    \E r \in StreamIds :
        /\ streams[r].pc = "ended"
        /\ streams[r].header = RangeHeader(0, 2)
        /\ streams[r].status = 206
        /\ Len(streams[r].body) = 3


\* C2: for a stored file of length total, a header bytes=<a>-<b> (either
\* bound may be left out) whose start a >= total, or whose given end
\* b >= total, is answered 416: no 200, no 206, no body.
C2_Unsatisfiable ==
    \A r \in StreamIds :
        LET s == streams[r] IN
        (s.pc # "idle" /\ Stored(s.video_id)) =>
            \A a, b \in RangeNums \cup {Absent} :
                (/\ s.header = RangeHeader(a, b)
                 /\ \/ a >= Len(File(s.video_id))
                    \/ b # Absent /\ b >= Len(File(s.video_id))) =>
                    s.status = 416 /\ s.pc = "ended" /\ s.body = <<>>

\* "bytes=3-13" on a file of three bytes, and "bytes=0-4" on a file of three
\* bytes (an end a clamp would have accepted), were both answered 416
C2_Witness ==
    \E r \in StreamIds :
        /\ streams[r].status = 416
        /\ Stored(streams[r].video_id)
        /\ Len(File(streams[r].video_id)) = 3
        /\ streams[r].header \in {RangeHeader(3, 13), RangeHeader(0, 4)}

\* C3 (as claimed): every range served with a 206 satisfies
\* 0 <= start <= end <= total-1, so that a reversed range such as bytes=2-1
\* never produces a partial response.
C3_Claim ==
    \A r \in StreamIds :
        streams[r].status = 206 =>
            /\ 0 <= streams[r].start
            /\ streams[r].start <= streams[r].end
            /\ streams[r].end <= streams[r].total - 1

\* headers with malformed syntax: a bound that is not a number, a unit other
\* than bytes, several ranges
MalformedHeaders ==
    {Header(<<"bytes=", "x", "-", "1">>), Header(<<"x", "0", "-", "1">>), bytes_0_1_2_3}

\* C4 (as claimed): a request for a stored file with a malformed Range header
\* is answered like a request without the header: 200, and the whole file.
C4_Claim ==
    \A r \in StreamIds :
        LET s == streams[r] IN
        (s.pc # "idle" /\ Stored(s.video_id) /\ s.header \in MalformedHeaders) =>
            /\ s.status = 200
            /\ s.pc = "ended" => s.body = File(s.video_id)

\* C5 (as claimed): for a stored file of any length, 0 included, the request
\* with "Range: bytes=0-" is answered 206, the request without Range 200, and
\* once both have ended their bodies are identical.
C5_Claim ==
    \A r1, r2 \in StreamIds :
        LET s1 == streams[r1]
            s2 == streams[r2]
        IN  (/\ s1.pc # "idle" /\ s2.pc # "idle"
             /\ s1.video_id = s2.video_id /\ Stored(s1.video_id)
             /\ s1.header = bytes_0_ /\ s2.header = NoHeader) =>
                /\ s1.status = 206
                /\ s2.status = 200
                /\ (s1.pc = "ended" /\ s2.pc = "ended") => s1.body = s2.body

\* C5 (amended): the same for a stored file of length at least 1; for an
\* empty file the request with "Range: bytes=0-" is answered 416 and the
\* request without Range 200 with an empty body.
C5_SameBody ==
    \A r1, r2 \in StreamIds :
        LET s1 == streams[r1]
            s2 == streams[r2]
        IN  (/\ s1.pc # "idle" /\ s2.pc # "idle"
             /\ s1.video_id = s2.video_id /\ Stored(s1.video_id)
             /\ s1.header = bytes_0_ /\ s2.header = NoHeader) =>
                IF Len(File(s1.video_id)) >= 1
                THEN /\ s1.status = 206
                     /\ s2.status = 200
                     /\ (s1.pc = "ended" /\ s2.pc = "ended") =>
                           s1.body = s2.body /\ s1.body = File(s1.video_id)
                ELSE /\ s1.status = 416
                     /\ s2.status = 200
                     /\ s2.pc = "ended" => s2.body = <<>>

\* both requests for a file of three bytes have ended, with three bytes each
C5_Witness ==
    \E r1, r2 \in StreamIds :
        /\ streams[r1].pc = "ended" /\ streams[r2].pc = "ended"
        /\ streams[r1].video_id = streams[r2].video_id
        /\ streams[r1].header = bytes_0_ /\ streams[r2].header = NoHeader
        /\ streams[r1].status = 206 /\ streams[r2].status = 200
        /\ Len(streams[r1].body) = 3 /\ Len(streams[r2].body) = 3


\* C6 (as claimed): an upload in which the handler found the cumulative size
\* over MAX_FILE_SIZE (it raised the 413) is answered with status 413.
C6_Claim ==
    \A u \in UploadIds :
        (uploads[u].pc = "done" /\ uploads[u].raised = "HTTPException413") =>
            uploads[u].status = 413

\* C7: once an upload of more than MAX_FILE_SIZE bytes has been answered, no
\* file, not even a partial one, is linked at its storage path and the
\* catalog holds no record for its identifier.
C7_NothingLeft ==
    \A u \in UploadIds :
        (uploads[u].pc = "done" /\ Len(uploads[u].data) > MAX_FILE_SIZE) =>
            ~linked[u] /\ ~Has(u)

\* an upload was rejected for its size after part of it had been written
C7_Witness ==
    \E u \in UploadIds :
        /\ uploads[u].pc = "done"
        /\ uploads[u].raised = "HTTPException413"
        /\ Len(fileData[u]) >= 1
        /\ ~linked[u]

\* C8 (as claimed): in every state the catalog holds a record for an
\* identifier if and only if a complete file (all the bytes of its upload)
\* is linked at its storage path, of the recorded size.
C8_Claim ==
    \A v \in VideoIds :
        Has(v) <=> (linked[v] /\ fileData[v] = uploads[v].data)

\* the states of an upload between the creation of its file and its answer
InProgress == {"copying", "rejecting", "failing", "closing"}

\* C8 (amended): in every state every record of the catalog has a linked
\* file at its storage path that holds all the bytes of its upload and is of
\* the recorded size; and every linked file without a record belongs to an
\* upload that has not been answered yet.
C8_RecordsAndFiles ==
    \A v \in VideoIds :
        /\ Has(v) =>
              /\ linked[Get(v).file_path]
              /\ fileData[Get(v).file_path] = uploads[v].data
              /\ Get(v).size = Len(fileData[Get(v).file_path])
        /\ (linked[v] /\ ~Has(v)) => uploads[v].pc \in InProgress

\* one video has been uploaded and deleted, another of three bytes is stored
C8_Witness ==
    \E v, w \in VideoIds :
        /\ uploads[v].status = 200 /\ ~Has(v) /\ ~linked[v]
        /\ Has(w) /\ linked[w] /\ Get(w).size = 3

\* the video was registered and is no longer in the catalog
Deleted(video_id) == uploads[video_id].status = 200 /\ ~Has(video_id)

\* C9 (as claimed): a request answered 200 or 206 whose stream ends without a
\* disconnect or a read error has delivered every byte it announced, whatever
\* delete ran in between; and a request that starts after the delete of its
\* video is answered 404.
C9_Claim ==
    [][/\ \A r \in StreamIds :
              (/\ streams'[r].pc = "ended"
               /\ streams'[r].status \in {200, 206}
               /\ streams'[r].outcome \notin {"disconnected", "read_error"}) =>
                  Len(streams'[r].body) = streams'[r].length
       /\ \A r \in StreamIds :
              (/\ streams[r].pc = "idle" /\ streams'[r].pc # "idle"
               /\ Deleted(streams'[r].video_id)) =>
                  streams'[r].status = 404]_vars

\* C10: a stream that has ended, by completion, by a disconnect or by a read
\* error, holds no open read handle; a handle is open only between the
\* start of stream_file and the exit of its async with.
C10_HandleClosed ==
    \A r \in StreamIds :
        streams[r].pc \in {"idle", "accepted", "ended"} => ~streams[r].open

\* a stream whose client disconnected in the middle of the body has ended
C10_Witness ==
    \E r \in StreamIds :
        /\ streams[r].pc = "ended"
        /\ streams[r].outcome = "disconnected"
        /\ Len(streams[r].body) >= 1
        /\ Len(streams[r].body) < streams[r].length

\* the name ends in a dot followed by one of the allowed extensions, in
\* either case
AllowedEndings == {"mp4", "MP4", "avi", "mov", "mkv", "webm", "flv", "wmv"}
EndsInAllowed(filename) ==
    /\ Len(filename) >= 2
    /\ filename[Len(filename) - 1] = "."
    /\ filename[Len(filename)] \in AllowedEndings

\* C11: an upload that passed the key check and whose filename does not end
\* in an allowed extension is answered 400 at once: nothing of its body has
\* been read, no file exists at its storage path, and the catalog has no
\* record of it.
C11_BadExtension ==
    \A u \in UploadIds :
        LET up == uploads[u] IN
        (up.pc # "idle" /\ up.status # 401 /\ ~EndsInAllowed(up.filename)) =>
            /\ up.pc = "done" /\ up.status = 400
            /\ up.data = <<>> /\ up.file_size = 0
            /\ ~linked[u] /\ fileData[u] = <<>>
            /\ ~Has(u)

\* a name with two extensions, the last one not allowed, was refused, and a
\* name with an allowed extension in upper case was stored
C11_Witness ==
    \E u, w \in UploadIds :
        /\ uploads[u].filename = <<"v", ".", "mp4", ".", "txt">>
        /\ uploads[u].status = 400
        /\ uploads[w].filename = <<"v", ".", "MP4">>
        /\ uploads[w].status = 200

\* C12: every 206 carries Content-Range: bytes <start>-<end>/<total> with
\* the file's length as total, Content-Length = end-start+1 and
\* Accept-Ranges: bytes; every request without a Range header for a stored
\* file is answered 200 with Content-Length = total and Accept-Ranges: bytes;
\* and when the stream of either has ended, the number of body bytes
\* delivered is the Content-Length.
C12_Claim ==
    \A r \in StreamIds :
        LET s == streams[r] IN
        (s.pc # "idle" /\ Stored(s.video_id)) =>
            /\ s.status = 206 =>
                  /\ s.content_range = "bytes start-end/total"
                  /\ s.total = Len(File(s.video_id))
                  /\ s.length = s.end - s.start + 1
            /\ ~s.header.present =>
                  /\ s.status = 200
                  /\ s.length = Len(File(s.video_id))
            /\ s.status \in {200, 206} =>
                  /\ s.accept_ranges = "bytes"
                  /\ s.pc = "ended" => Len(s.body) = s.length

\* C13: every 416 of a stream request for a stored file carries
\* Content-Range: bytes */<total>, total being the file's length.
C13_Claim ==
    \A r \in StreamIds :
        LET s == streams[r] IN
        (s.pc # "idle" /\ Stored(s.video_id) /\ s.status = 416) =>
            /\ s.content_range = "bytes */total"
            /\ s.total = Len(File(s.video_id))

\* C14: for a stored file of length total, a header bytes=<a>- with
\* a < total is answered 206 for the interval [a, total-1], and the body of
\* the ended stream is these bytes; a header bytes=<a>-<b> with a < total is
\* served with end = b when b < total and is answered 416, with no body,
\* when b >= total.
C14_OpenEnded ==
    \A r \in StreamIds :
        LET s     == streams[r]
            total == Len(File(s.video_id))
        IN
        (s.pc # "idle" /\ Stored(s.video_id)) =>
            \A a \in 0..(total - 1) :
                /\ s.header = RangeHeader(a, Absent) =>
                      /\ s.status = 206 /\ s.start = a /\ s.end = total - 1
                      /\ s.pc = "ended" => s.body = Slice(File(s.video_id), a, total - 1)
                /\ \A b \in RangeNums :
                      s.header = RangeHeader(a, b) =>
                          IF b < total
                          THEN s.status = 206 /\ s.start = a /\ s.end = b
                          ELSE s.status = 416 /\ s.body = <<>> /\ s.pc = "ended"

\* "bytes=1-" on a file of three bytes was served to its end with the last
\* two bytes
C14_Witness ==
    \E r \in StreamIds :
        /\ streams[r].header = RangeHeader(1, Absent)
        /\ Stored(streams[r].video_id)
        /\ Len(File(streams[r].video_id)) = 3
        /\ streams[r].pc = "ended"
        /\ streams[r].end = 2
        /\ streams[r].body = <<12, 13>>

\* an upload that passed the key check with an allowed name and a body
\* within the maximum, and met no I/O failure, has finished
GoodUpload(u) ==
    /\ uploads[u].pc = "done"
    /\ uploads[u].status # 401
    /\ EndsInAllowed(uploads[u].filename)
    /\ uploads[u].raised # "OSError"
    /\ Len(uploads[u].data) <= MAX_FILE_SIZE

\* stream request r has just been answered
Answered(r) == streams[r].pc = "idle" /\ streams'[r].pc # "idle"

\* C15, as a property of states: a good upload is answered 200 with size =
\* the number of bytes uploaded, which is the size of its record, and its
\* stored file holds the uploaded bytes; every stream
\* answered 200 sends, chunk by chunk, a prefix of the bytes stored for its
\* video, and when it has ended its body is exactly these bytes, so that
\* any two ended streams of one video have the same body.
C15_Bodies ==
    /\ \A u \in UploadIds :
          GoodUpload(u) =>
              /\ uploads[u].status = 200
              /\ uploads[u].file_size = Len(uploads[u].data)
              /\ Has(u) /\ Get(u).size = Len(uploads[u].data)
              /\ fileData[u] = uploads[u].data
    /\ \A r \in StreamIds :
          LET s == streams[r] IN
          s.status = 200 =>
              /\ uploads[s.video_id].status = 200
              /\ IsPrefix(s.body \o s.held, fileData[s.video_id])
              /\ s.pc = "ended" => s.body = fileData[s.video_id]
    /\ \A r, q \in StreamIds :
          (/\ streams[r].pc = "ended" /\ streams[q].pc = "ended"
           /\ streams[r].status = 200 /\ streams[q].status = 200
           /\ streams[r].video_id = streams[q].video_id) =>
              streams[r].body = streams[q].body

\* C15, as a property of steps: a stream request without a Range header
\* that arrives once the upload of its video has been answered 200 is
\* answered 200 with Content-Length = the uploaded size.
C15_Served ==
    \A r \in StreamIds :
        (Answered(r) /\ uploads[streams'[r].video_id].status = 200) =>
            /\ streams'[r].status = 200
            /\ streams'[r].length = uploads[streams'[r].video_id].file_size

\* C15: uploading a file with an allowed extension and a size within the
\* maximum, then streaming it without a Range header, reproduces the
\* uploaded bytes exactly; the returned size is the number of bytes
\* uploaded; and repeated streams have the same body.
C15_RoundTrip == []C15_Bodies /\ [][C15_Served]_vars

\* a body of exactly the maximum size was uploaded, and two streams of it
\* have ended with that body
C15_Witness ==
    \E u \in UploadIds :
        /\ uploads[u].status = 200
        /\ Len(uploads[u].data) = MAX_FILE_SIZE
        /\ \A r \in StreamIds :
              /\ streams[r].pc = "ended" /\ streams[r].video_id = u
              /\ streams[r].body = uploads[u].data

\* C16, as a property of states: once a DELETE for v has been answered 200,
\* the catalog has no record of v and storage has no file of v (the storage
\* path of video v is v).
C16_Gone ==
    \A v \in VideoIds : deleted[v] >= 1 => ~Has(v) /\ ~linked[v]

\* C16, as a property of steps, for requests with the configured key: a
\* DELETE for an identifier that is not in the catalog is answered 404 and
\* changes nothing; a DELETE for an identifier that is in the catalog is
\* answered 200; and once a DELETE for v has been answered 200, every
\* DELETE, GET /video and GET /stream for v is answered 404.
C16_Steps ==
    \A v \in VideoIds :
        /\ (~Has(v) /\ delete_video(v, API_KEY)) =>
              /\ reply'.op = "delete_video" /\ reply'.status = 404
              /\ UNCHANGED <<video_metadata, linked, fileData, uploads, streams, deleted>>
        /\ (Has(v) /\ delete_video(v, API_KEY)) =>
              /\ reply'.op = "delete_video" /\ reply'.status = 200
              /\ deleted'[v] = deleted[v] + 1
        /\ deleted[v] >= 1 =>
              /\ delete_video(v, API_KEY) => reply'.status = 404
              /\ get_video_info(v, API_KEY) => reply'.status = 404
              /\ \A r \in StreamIds :
                    (Answered(r) /\ streams'[r].video_id = v) => streams'[r].status = 404

\* C16: DELETE for an unknown identifier returns 404 and changes nothing;
\* after DELETE for a known identifier has returned 200, its record and its
\* file are gone and every later GET /stream, GET /video or DELETE for it
\* returns 404.
C16_Delete == []C16_Gone /\ [][C16_Steps]_vars

\* both videos were uploaded and deleted, a stream request for one of them
\* was then refused with 404, and the last DELETE was answered 404
C16_Witness ==
    /\ \A v \in VideoIds : uploads[v].status = 200 /\ deleted[v] = 1
    /\ reply = Answer("delete_video", 404)
    /\ streams[1].status = 404
    /\ streams[1].video_id = 1

\* C17: an upload that met an I/O failure while it was being copied to
\* storage is answered 500 once it is done; from then on no file exists at
\* its storage path and the catalog has no record of it.
C17_FailedUpload ==
    \A u \in UploadIds :
        (uploads[u].pc = "done" /\ uploads[u].raised = "OSError") =>
            /\ uploads[u].status = 500
            /\ ~linked[u]
            /\ ~Has(u)

\* the failure came after a chunk had been written: the partial file held
\* two bytes of a longer body when it was removed
C17_Witness ==
    \E u \in UploadIds :
        /\ uploads[u].pc = "done" /\ uploads[u].raised = "OSError"
        /\ uploads[u].status = 500
        /\ Len(fileData[u]) = 2
        /\ Len(uploads[u].data) = 3
        /\ ~linked[u]

\* the keys that differ from the configured key
WrongKeys == Keys \ {API_KEY}

\* C18, as a property of states: an upload answered 401 is done, has read
\* nothing, has no file and no record; no stream request is answered 401;
\* GET /health is answered 200.
C18_Refused ==
    /\ \A u \in UploadIds :
          uploads[u].status = 401 =>
              /\ uploads[u].pc = "done" /\ uploads[u].file_size = 0
              /\ ~linked[u] /\ fileData[u] = <<>> /\ ~Has(u)
    /\ \A r \in StreamIds : streams[r].status # 401
    /\ reply.op = "health_check" => reply.status = 200

\* C18, as a property of steps: POST /upload, GET /video, GET /videos and
\* DELETE /video with a key that differs from the configured key are
\* answered 401 and leave the catalog and storage as they were.
C18_Steps ==
    \A k \in WrongKeys :
        /\ \A u \in UploadIds, fn \in Filenames, n \in ApiSizes :
              UploadRequest(u, k, fn, Payload(u, n)) =>
                  /\ uploads'[u].status = 401 /\ uploads'[u].pc = "done"
                  /\ UNCHANGED <<video_metadata, linked, fileData>>
        /\ \A v \in VideoIds :
              /\ get_video_info(v, k) =>
                    /\ reply'.status = 401 /\ reply'.videos = <<>>
                    /\ UNCHANGED <<video_metadata, linked, fileData>>
              /\ delete_video(v, k) =>
                    /\ reply'.status = 401
                    /\ UNCHANGED <<video_metadata, linked, fileData>>
        /\ \A limit, offset \in PageNums :
              list_videos(k, limit, offset) =>
                  /\ reply'.status = 401 /\ reply'.videos = <<>>
                  /\ UNCHANGED <<video_metadata, linked, fileData>>

C19_NoStream ==
    \A r \in StreamIds :
        streams[r].status = 404 =>
            /\ streams[r].pc = "ended" /\ ~streams[r].open
            /\ streams[r].body = <<>> /\ streams[r].held = <<>>

\* C19, as a property of steps: a stream request that arrives when the
\* catalog has no record of its identifier, or has a record whose file is
\* not in storage, is answered 404 (not 200, not 206) and opens no handle.
C19_Steps ==
    \A r \in StreamIds :
        LET v == streams'[r].video_id IN
        (Answered(r) /\ ~Stored(v)) =>
            /\ streams'[r].status = 404
            /\ streams'[r].pc = "ended"
            /\ ~streams'[r].open

\* C19: GET /stream/{video_id} returns 404 both for an identifier that is
\* not in the catalog and for a record whose file is missing from storage;
\* in neither case is a 200 or 206 sent or a read handle opened.
C19_NotFound == []C19_NoStream /\ [][C19_Steps]_vars

\* one request for a recorded video whose file had left storage, and one
\* for an identifier the catalog does not have, were both answered 404
C19_Witness ==
    \E r, q \in StreamIds :
        /\ streams[r].status = 404 /\ Has(streams[r].video_id)
        /\ ~linked[Get(streams[r].video_id).file_path]
        /\ streams[q].status = 404 /\ ~Has(streams[q].video_id)

\* C20: for a stored file of length total and 1 <= n <= total, the header
\* bytes=-<n> is answered 206 for the interval [total-n, total-1], and the
\* body of the ended stream is the last n bytes of the file.
C20_Claim ==
    \A r \in StreamIds :
        LET s     == streams[r]
            total == Len(File(s.video_id))
        IN
        (s.pc # "idle" /\ Stored(s.video_id)) =>
            \A n \in 1..total :
                s.header = RangeHeader(Absent, n) =>
                    /\ s.status = 206
                    /\ s.start = total - n /\ s.end = total - 1
                    /\ s.pc = "ended" => s.body = Slice(File(s.video_id), total - n, total - 1)

\* C21: a partial stream that left its loop on a zero-length read while
\* bytes remained to be sent (remaining > 0) has reported a truncated
\* transfer: it has not ended as a complete one.
C21_Claim ==
    \A r \in StreamIds :
        LET s == streams[r] IN
        (s.status = 206 /\ s.pc \in {"closing", "ended"} /\ s.remaining > 0) =>
            s.outcome # "complete"

\* C22: bytes_remaining of a stream never goes below zero, and a partial
\* stream about to read has bytes remaining and asks for
\* min(ChunkSize, bytes_remaining) of them.
C22_Claim ==
    \A r \in StreamIds :
        LET s == streams[r] IN
        /\ s.remaining >= 0
        /\ (s.status = 206 /\ s.pc = "reading") =>
              /\ s.remaining > 0
              /\ ReadSize(s.status, s.remaining) = Min(ChunkSize, s.remaining)

\* a record with all its fields, whose upload has been answered 200 and
\* whose size is the length of its file, the file holding the uploaded bytes
WholeRecord(rec) ==
    /\ DOMAIN rec = {"video_id", "original_filename", "file_path", "size"}
    /\ uploads[rec.video_id].pc = "done" /\ uploads[rec.video_id].status = 200
    /\ rec.size = Len(fileData[rec.file_path])
    /\ fileData[rec.file_path] = uploads[rec.video_id].data

\* C23: under any interleaving of uploads with GET /video, GET /videos and
\* GET /stream, every record of the catalog, every record a GET /video or
\* GET /videos has returned, and every record a GET /stream was served
\* from, is a whole record: all fields, registered after its file was
\* completely written, size = the length of the file.
C23_Visible ==
    /\ \A i \in 1..Len(video_metadata) : WholeRecord(video_metadata[i])
    /\ \A i \in 1..Len(reply.videos) : WholeRecord(reply.videos[i])
    /\ \A r \in StreamIds :
          streams[r].status \in {200, 206} =>
              /\ uploads[streams[r].video_id].pc = "done"
              /\ uploads[streams[r].video_id].status = 200
              /\ streams[r].total = Len(fileData[streams[r].path])

\* while the second upload was being copied, with a chunk already written,
\* GET /videos listed the first video alone
C23_Witness ==
    /\ uploads[2].pc = "copying" /\ fileData[2] # <<>>
    /\ reply.op = "list_videos" /\ reply.status = 200
    /\ reply.total = 1 /\ Len(reply.videos) = 1
    /\ reply.videos[1].video_id = 1

\* C24, as a property of states: a stream holds at most one chunk, of at
\* most ChunkSize bytes, and only between its read and the transport's
\* acceptance; unless a disconnect dropped a chunk, what it has read from
\* the file is what it has sent plus the chunk it holds.
C24_Held ==
    \A r \in StreamIds :
        LET s == streams[r] IN
        /\ Len(s.held) <= ChunkSize
        /\ s.held # <<>> => s.pc = "yielded"
        /\ (s.open /\ s.outcome # "disconnected") =>
              s.pos = SeekTo(s.status, s.start) + Len(s.body) + Len(s.held)

\* C24, as a property of steps: a stream reads from the file (its offset
\* moves forward past a chunk) only when it holds no chunk.
C24_Steps ==
    \A r \in StreamIds :
        (streams[r].open /\ streams'[r].pos > streams[r].pos) => streams[r].held = <<>>

\* C24: chunk k+1 is read only after chunk k was accepted by the transport;
\* at most one chunk read from the file is held without having been sent.
C24_OneChunk == []C24_Held /\ [][C24_Steps]_vars

\* a stream has sent its first chunk and holds the second, the last byte
\* of the file, which the transport has not accepted yet
C24_Witness ==
    \E r \in StreamIds :
        /\ streams[r].pc = "yielded"
        /\ Len(streams[r].body) = ChunkSize
        /\ streams[r].held = <<13>>

\* the catalog and the stored files are as they were
SameStore == UNCHANGED <<video_metadata, linked, fileData>>

\* C25: every step of GET /stream (the handler, and the generator's open,
\* read, send and close: the steps that change the state of a stream
\* request), and every GET /video, GET /videos and GET /health, whatever it
\* answers, leaves the catalog and every stored file unchanged; and in
\* every step of the service a record that is in the catalog before and
\* after the step has the same fields, and its file the same bytes.
C25_Steps ==
    /\ streams' # streams => SameStore
    /\ reply'.op = "get_video_info" =>
          \A k \in Keys, v \in VideoIds : get_video_info(v, k) => SameStore
    /\ reply'.op = "list_videos" =>
          \A k \in Keys, limit, offset \in PageNums :
              list_videos(k, limit, offset) => SameStore
    /\ reply'.op = "health_check" => (health_check => SameStore)
    /\ \A i \in 1..Len(video_metadata), j \in 1..Len(video_metadata') :
          video_metadata[i].video_id = video_metadata'[j].video_id =>
              /\ video_metadata'[j] = video_metadata[i]
              /\ linked'[video_metadata[i].file_path]
              /\ fileData'[video_metadata[i].file_path] = fileData[video_metadata[i].file_path]

C25_ReadOnly == [][C25_Steps]_vars

\* with a video stored and still whole, its record was returned by
\* GET /video, and a stream request for it was answered 416
C25_Witness ==
    /\ Stored(1) /\ File(1) = uploads[1].data
    /\ reply.op = "get_video_info" /\ reply.status = 200
    /\ reply.videos = <<Get(1)>>
    /\ streams[1].status = 416 /\ streams[1].video_id = 1

\* C26, as a property of states: no identifier has had more than one DELETE
\* answered 200, and no DELETE has been answered anything but 200, 401 or
\* 404 (never 500).
C26_AtMostOne200 ==
    /\ \A v \in VideoIds : deleted[v] <= 1
    /\ reply.op = "delete_video" => reply.status \in {200, 401, 404}

\* C26, as a property of steps: the handler has no await, so DELETE requests
\* that are in flight together run one after the other, each as one step.
\* The one that finds the record is answered 200 and is the first 200 for
\* that identifier; every one that runs after it finds no record, is
\* answered 404 and changes nothing.
C26_Steps ==
    \A v \in VideoIds :
        delete_video(v, API_KEY) =>
            IF Has(v)
            THEN reply'.status = 200 /\ deleted[v] = 0 /\ deleted'[v] = 1 /\ ~Has(v)'
            ELSE reply'.status = 404 /\ deleted' = deleted /\ SameStore

\* C26: of the DELETE requests for one known identifier that run
\* concurrently, exactly one is answered 200 and the others 404; none is
\* answered 500.
C26_OneWinner == []C26_AtMostOne200 /\ [][C26_Steps]_vars

\* video 1 was uploaded and deleted with 200, no other video was ever
\* uploaded, and the DELETE that ran after the 200 was answered 404
C26_Witness ==
    /\ uploads[1].status = 200 /\ deleted[1] = 1 /\ ~Has(1) /\ ~linked[1]
    /\ uploads[2].pc = "idle" /\ deleted[2] = 0
    /\ reply = Answer("delete_video", 404)

\* C27: the size limit is inclusive.  An upload of exactly MAX_FILE_SIZE
\* bytes that met no I/O failure is answered 200 and was registered with
\* that size and those bytes (its record is in the catalog unless a DELETE
\* has removed it since); an upload of MAX_FILE_SIZE + 1 bytes is answered
\* with an error status and never has a record; and the file of an upload
\* never holds more than MAX_FILE_SIZE bytes, at any point of the copy.
C27_InclusiveLimit ==
    \A u \in UploadIds :
        /\ Len(fileData[u]) <= MAX_FILE_SIZE
        /\ (/\ uploads[u].pc = "done"
            /\ Len(uploads[u].data) = MAX_FILE_SIZE
            /\ uploads[u].raised # "OSError") =>
               /\ uploads[u].status = 200
               /\ uploads[u].file_size = MAX_FILE_SIZE
               /\ fileData[u] = uploads[u].data
               /\ IF Has(u) THEN Get(u).size = MAX_FILE_SIZE /\ linked[u]
                  ELSE deleted[u] = 1
        /\ (uploads[u].pc = "done" /\ Len(uploads[u].data) = MAX_FILE_SIZE + 1) =>
               /\ uploads[u].status >= 400
               /\ ~Has(u) /\ deleted[u] = 0 /\ ~linked[u]

\* one upload of exactly the maximum size is registered with all its bytes
\* stored; another of one byte more was refused when its second chunk
\* passed the limit, its file holding the first chunk only
C27_Witness ==
    /\ uploads[1].pc = "done" /\ Len(uploads[1].data) = MAX_FILE_SIZE
    /\ uploads[1].status = 200 /\ Has(1) /\ Len(fileData[1]) = MAX_FILE_SIZE
    /\ uploads[2].pc = "done" /\ Len(uploads[2].data) = MAX_FILE_SIZE + 1
    /\ uploads[2].raised = "HTTPException413"
    /\ Len(fileData[2]) = ChunkSize /\ ~linked[2]

\* the page of GET /videos at an offset, over the catalog as it is
Page(limit, offset) == PySlice(video_metadata, offset, offset + limit)

\* the places (page k, position j) where record i of the catalog is
\* returned by the consecutive pages at offsets 0, limit, 2 * limit, ...
PlacesOf(limit, i) ==
    {kj \in (0..Len(video_metadata)) \X (1..Len(video_metadata)) :
        /\ kj[2] <= Len(Page(limit, kj[1] * limit))
        /\ Page(limit, kj[1] * limit)[kj[2]] = video_metadata[i]}

\* C30, as a property of steps: GET /videos with the configured key, a
\* limit >= 0 and an offset >= 0 is answered 200 with total = the number of
\* records of the catalog and with the records at positions offset to
\* offset + limit - 1 (counted from 0) that the catalog has, in registration
\* order, never more than limit of them.
C30_Steps ==
    reply'.op = "list_videos" => \A limit, offset \in PageNums :
        list_videos(API_KEY, limit, offset) =>
            LET n == Len(video_metadata)
                m == IF offset >= n THEN 0 ELSE Min(limit, n - offset)
            IN  /\ reply'.status = 200
                /\ reply'.total = n
                /\ Len(reply'.videos) <= limit
                /\ reply'.videos = [j \in 1..m |-> video_metadata[offset + j]]
                /\ reply'.videos = Page(limit, offset)

\* C30 as stated, with every limit >= 0: the answers are as C30_Steps says,
\* and over the catalog of any state the consecutive pages return every
\* record exactly once.
C30_Claim ==
    /\ [][C30_Steps]_vars
    /\ [](\A limit \in PageNums : \A i \in 1..Len(video_metadata) :
             Cardinality(PlacesOf(limit, i)) = 1)

\* C30, amended: the answers are as C30_Steps says for limit >= 0 and
\* offset >= 0, and for every limit >= 1 the consecutive pages over the
\* catalog of any state return every record exactly once.
C30_Pagination ==
    /\ [][C30_Steps]_vars
    /\ [](\A limit \in PageNums \ {0} : \A i \in 1..Len(video_metadata) :
             Cardinality(PlacesOf(limit, i)) = 1)

\* the catalog has two records and the last answer is the second page of
\* size one: the second record registered, with total 2
C30_Witness ==
    /\ Len(video_metadata) = 2
    /\ reply.op = "list_videos" /\ reply.status = 200
    /\ reply.limit = 1 /\ reply.offset = 1 /\ reply.total = 2
    /\ reply.videos = <<video_metadata[2]>>

\* C28: every StreamVideoView request whose Range header is
\* bytes=<start>-[<end>] and that was answered for the movie's file is
\* answered 206; every 206 has Content-Length = end - start + 1 = the number
\* of bytes of its body, and a Content-Range within the file
\* (0 <= start <= end < file size); a request whose Range header does not
\* match is answered 200 with the whole file.
C28_Claim ==
    LET answered == response.status \notin {0, 404} IN
    /\ \A a \in 0..(MaxMovie + 1), b \in {Absent} \cup (0..(MaxMovie + 1)) :
          (answered /\ HTTP_RANGE = RangeHeader(a, b)) => response.status = 206
    /\ response.status = 206 =>
          /\ response.content_length = response.end - response.start + 1
          /\ response.content_length = Len(response.body)
          /\ 0 <= response.start /\ response.start <= response.end
          /\ response.end < response.total
          /\ response.total = Len(video_file.data)
    /\ (answered /\ ~RangeSearch(HTTP_RANGE.value).found) =>
          /\ response.status = 200
          /\ response.body = video_file.data
          /\ response.content_length = Len(video_file.data)

\* the verify_email requests that completed the verification
Verified == {q \in VerifyIds : verifications[q].outcome = "verified"}

\* C29, as a property of steps: a request that looks the token up once it
\* is marked used is answered "invalid link"; a request that finds the token
\* expired is answered "expired" and goes no further; and email_verified is
\* set only while the token is not marked used.
C29_Steps ==
    \A q \in VerifyIds :
        /\ (verification_token.is_used /\ VerifyGet(q, "token")) =>
              verifications'[q].outcome = "invalid"
        /\ (verification_token.expired /\ VerifyIsExpired(q)) =>
              verifications'[q].outcome = "expired" /\ verifications'[q].pc = "done"
        /\ VerifySaveUser(q) => ~verification_token.is_used

\* C29: under any interleaving of verify_email requests that carry the same
\* token, at most one of them completes the verification, every request
\* after the token is marked used is rejected as an invalid link, and a
\* token that is expired or already used never sets email_verified.
C29_Claim == [](Cardinality(Verified) <= 1) /\ [][C29_Steps]_vars

====
